---- MODULE Spec2Model ----
(***************************************************************************)
(* Model of LessDumbEveryDay: the content orchestrator and the provider    *)
(* adapters of sources.py, the summary call of gemini.py, and the note     *)
(* assembly and main run of main.py.                                       *)
(*                                                                         *)
(* Python values: a dict is a record, a list is a sequence, a str is a     *)
(* string.  A function call yields [exc, val, gets]: the exception that    *)
(* escapes it ("" when it returns), the value returned, and the URLs it    *)
(* issued an HTTP GET to, in order.  The answers of the network and of     *)
(* random.choice are inputs of the actions.                                *)
(***************************************************************************)
EXTENDS Integers, Sequences, FiniteSets, TLC

\* Longest feed (entries) and longest category listing (pages) the network answers with.
MaxEntries == 2
MaxPages == 2
\* Largest number of blocks (a heading line with its text, or a bare text) in a summary text.
MaxBlocks == 3

\* Python's None where a dict or a feed is expected, and where a str is expected.
None == [py |-> "None"]
NoneStr == "None"

Ret(v, g) == [exc |-> "", val |-> v, gets |-> g]
Raise(e, g) == [exc |-> e, val |-> None, gets |-> g]

\* d.get(k, default)
DictGet(d, k, default) == IF k \in DOMAIN d THEN d[k] ELSE default

\* truth value of a str-or-None
Truthy(s) == s # NoneStr /\ s # ""

SeqsUpTo(S, n) == UNION {[1..k -> S] : k \in 0..n}

-----------------------------------------------------------------------------
(* The network *)

JstorFeedUrl == "https://daily.jstor.org/feed/"
DailyStoicFeedUrl == "https://dailystoic.com/feed/"
WikiApiUrl == "https://pt.wikipedia.org/w/api.php"
WikiSummaryUrl == "https://pt.wikipedia.org/api/rest_v1/page/summary/"
PlatoUrl == "https://plato.stanford.edu/cgi-bin/encyclopedia/random"

\* How a requests.get can end before its body is used: requests.get raises
\* (network error, timeout), or raise_for_status raises (non-2xx status).
HttpFailures == {"request_error", "status_error"}

\* Feed entries: with both fields, without a link, without a title.
Entries ==
  { [title |-> "T", link |-> "L"],
    [title |-> "T"],
    [link |-> "L"] }

\* Answers to the GET of a feed URL; "parse_error" is feedparser.parse raising.
FeedResponses ==
  [kind : HttpFailures \cup {"parse_error"}, entries : {<<>>}]
    \cup [kind : {"ok"}, entries : SeqsUpTo(Entries, MaxEntries)]

\* Members of a category listing: with and without the "title" field.
Pages == { [title |-> "P"], [pageid |-> "1"] }

\* JSON bodies of the category listing: no "query", a "query" without
\* "categorymembers", and a listing of 0..MaxPages members.
ListJsons ==
  { [batchcomplete |-> ""], [batchcomplete |-> "", query |-> [pages |-> <<>>]] }
    \cup { [batchcomplete |-> "", query |-> [categorymembers |-> ps]] :
             ps \in SeqsUpTo(Pages, MaxPages) }

ListResponses ==
  [kind : HttpFailures \cup {"json_error"}, json : {[batchcomplete |-> ""]}]
    \cup [kind : {"ok"}, json : ListJsons]

\* JSON bodies of the page summary.
SummaryJsons ==
  { [title |-> "T", content_urls |-> [desktop |-> [page |-> "L"]]],
    [title |-> "", content_urls |-> [desktop |-> [page |-> "L"]]],
    [content_urls |-> [desktop |-> [page |-> "L"]]],
    [title |-> "T"],
    [title |-> "T", content_urls |-> [mobile |-> [page |-> "L"]]] }

SummaryResponses ==
  [kind : HttpFailures \cup {"json_error"}, json : {[title |-> "T"]}]
    \cup [kind : {"ok"}, json : SummaryJsons]

\* Answers to the GET of the random-entry page: the text of its first <h1>
\* (NoneStr when the page has none) and the final URL after the redirect.
PlatoResponses ==
  [kind : HttpFailures, h1 : {NoneStr}, url : {"L"}]
    \cup [kind : {"ok"}, h1 : {NoneStr, "T", " T ", " "}, url : {"L"}]

\* str.strip() on the heading texts above
StripStr(s) ==
  CASE s = " T " -> "T"
    [] s = " " -> ""
    [] OTHER -> s

HttpException(kind) ==
  CASE kind = "request_error" -> "RequestException"
    [] kind = "status_error" -> "HTTPError"
    [] kind = "json_error" -> "JSONDecodeError"
    [] OTHER -> "Exception"

-----------------------------------------------------------------------------
(* sources.py *)

generate_fallback_note(failed_sources) ==
  [ title |-> "Falha na Geracao Automatica",
    link |-> "",
    content |-> failed_sources ]

\* The try block of fetch_feed.
fetch_feed_try(url, resp) ==
  IF resp.kind # "ok"
    THEN Raise(HttpException(resp.kind), <<url>>)
    ELSE Ret(IF resp.entries # <<>> THEN [entries |-> resp.entries] ELSE None,
             <<url>>)

\* fetch_feed without its except clause.
fetch_feed_uncaught(url, resp) == fetch_feed_try(url, resp)

fetch_feed(url, resp) ==
  LET r == fetch_feed_try(url, resp)
  IN  IF r.exc # "" THEN Ret(None, r.gets) ELSE r

ArtigoTitle(source_name) == "Artigo " \o source_name

\* pick is the index random.choice draws.
fetch_article_from_feed(feed_url, source_name, resp, pick) ==
  LET f == fetch_feed(feed_url, resp)
  IN  IF f.exc # "" THEN f
      ELSE IF f.val = None
        THEN Ret(generate_fallback_note(<<source_name>>), f.gets)
        ELSE LET entry == f.val.entries[pick]
             IN  Ret([ title |-> DictGet(entry, "title", ArtigoTitle(source_name)),
                       link |-> DictGet(entry, "link", "") ],
                     f.gets)

\* The try block of get_wikipedia.
get_wikipedia_try(list_resp, pick, sum_resp) ==
  IF list_resp.kind # "ok"
    THEN Raise(HttpException(list_resp.kind), <<WikiApiUrl>>)
    ELSE
      LET pages == DictGet(DictGet(list_resp.json, "query", <<>>),
                           "categorymembers", <<>>)
      IN  IF pages = <<>>
            THEN Ret(generate_fallback_note(<<"Wikipedia">>), <<WikiApiUrl>>)
          ELSE IF "title" \notin DOMAIN pages[pick]
            THEN Raise("KeyError", <<WikiApiUrl>>)
          ELSE IF sum_resp.kind # "ok"
            THEN Raise(HttpException(sum_resp.kind), <<WikiApiUrl, WikiSummaryUrl>>)
          ELSE
            LET data == sum_resp.json
            IN  IF \/ "content_urls" \notin DOMAIN data
                   \/ "desktop" \notin DOMAIN data.content_urls
                   \/ "page" \notin DOMAIN data.content_urls.desktop
                  THEN Raise("KeyError", <<WikiApiUrl, WikiSummaryUrl>>)
                  ELSE Ret([ title |-> DictGet(data, "title", "Artigo Desconhecido"),
                             link |-> data.content_urls.desktop.page ],
                           <<WikiApiUrl, WikiSummaryUrl>>)

\* get_wikipedia without its except clause.
get_wikipedia_uncaught(list_resp, pick, sum_resp) ==
  get_wikipedia_try(list_resp, pick, sum_resp)

get_wikipedia(list_resp, pick, sum_resp) ==
  LET r == get_wikipedia_try(list_resp, pick, sum_resp)
  IN  IF r.exc # "" THEN Ret(generate_fallback_note(<<"Wikipedia">>), r.gets)
      ELSE r

get_jstor(resp, pick) ==
  fetch_article_from_feed(JstorFeedUrl, "JSTOR", resp, pick)

\* The try block of get_plato.
get_plato_try(resp) ==
  IF resp.kind # "ok" THEN Raise(HttpException(resp.kind), <<PlatoUrl>>)
  ELSE IF resp.h1 = NoneStr THEN Raise("ValueError", <<PlatoUrl>>)
  ELSE Ret([title |-> StripStr(resp.h1), link |-> resp.url], <<PlatoUrl>>)

get_plato(resp) ==
  LET r == get_plato_try(resp)
  IN  IF r.exc # ""
        THEN Ret(generate_fallback_note(<<"Stanford Philosophy">>), r.gets)
        ELSE r

get_daily_stoic(resp, pick) ==
  fetch_article_from_feed(DailyStoicFeedUrl, "Daily Stoic", resp, pick)

\* The names get_content can be asked for, and the get_<name> functions that
\* sources.py defines.
Sources ==
  {"wikipedia", "science", "jstor", "nautilus", "pesquisa_fapesp", "plato",
   "daily_stoic"}
Adapters == {"wikipedia", "jstor", "plato", "daily_stoic"}

\* The validation with the test of the link left out.
incomplete_title_only(content) ==
  ~Truthy(DictGet(content, "title", NoneStr))

\* "if not content.get('link') or not content.get('title')"
incomplete(content) ==
  \/ ~Truthy(DictGet(content, "link", NoneStr))
  \/ ~Truthy(DictGet(content, "title", NoneStr))

\* The dict get_content returns.
content_dict(content, stoic) ==
  [ main |-> [ title |-> DictGet(content, "title", "Titulo nao disponivel"),
               link |-> DictGet(content, "link", "") ],
    daily_stoic |-> stoic ]

-----------------------------------------------------------------------------
(* gemini.py and create_daily_note of main.py.  A text is a sequence of    *)
(* tokens: a heading line, a line break, or a run of text without "##".    *)

HResumo == "## Resumo:"
HPontos == "## Pontos-chave:"
HCitacao == "## Citacao do dia:"
H3 == "### Detalhes"
NL == "\n"

ResumoDefault == <<"Falha ao gerar conteudo. Leia o artigo original.">>
PontosDefault == <<"- Ponto 1", NL, "- Ponto 2">>
CitacaoDefault == <<"> Citacao nao disponivel">>

\* The text generate_summary returns when anything in its try block raises.
ErrorText ==
  <<HResumo, NL, "Erro na analise. Leia o artigo manualmente.", NL, NL,
    HPontos, NL, "- str(e)", NL, NL,
    HCitacao, NL>> \o CitacaoDefault

Headings == {HResumo, HPontos, HCitacao, H3}
Bodies == {"txt", CitacaoDefault[1]}
Blocks ==
  {<<h>> : h \in Headings}
    \cup {<<h, NL, b>> : h \in Headings, b \in Bodies}
    \cup {<<"txt">>}

RECURSIVE Texts(_)
Texts(n) ==
  IF n = 0 THEN {<<>>}
  ELSE LET shorter == Texts(n - 1)
       IN  shorter \cup {t \o b : t \in shorter, b \in Blocks}

\* Outcomes of the generation call: it raises, or response.text is a text.
ApiOutcomes ==
  [kind : {"error"}, text : {<<>>}] \cup [kind : {"ok"}, text : Texts(MaxBlocks)]

generate_summary(main_link, daily_stoic_link, api) ==
  IF api.kind = "error" THEN Ret(ErrorText, <<>>) ELSE Ret(api.text, <<>>)

\* str.strip(): line breaks at either end are dropped.
RECURSIVE Strip(_)
Strip(t) ==
  IF t = <<>> THEN t
  ELSE IF Head(t) = NL THEN Strip(Tail(t))
  ELSE IF t[Len(t)] = NL THEN Strip(SubSeq(t, 1, Len(t) - 1))
  ELSE t

\* re.search of "<head>:?(.*?)(?=<stops>|$)" with re.DOTALL: the leftmost
\* head, and the shortest text after it that ends before a stop or at the end.
Search(text, head, stops) ==
  LET starts == {i \in 1..Len(text) : text[i] = head}
  IN  IF starts = {} THEN [found |-> FALSE, group |-> <<>>]
      ELSE
        LET i == CHOOSE k \in starts : \A m \in starts : k <= m
            ends == {j \in (i + 1)..(Len(text) + 1) :
                       j = Len(text) + 1 \/ text[j] \in stops}
            j == CHOOSE k \in ends : \A m \in ends : k <= m
        IN  [found |-> TRUE, group |-> SubSeq(text, i + 1, j - 1)]

\* A search that wants the three headings in the order of the template.
pontos_match_after_resumo(text) ==
  LET starts == {i \in 1..Len(text) : text[i] = HResumo}
  IN  IF starts = {} THEN [found |-> FALSE, group |-> <<>>]
      ELSE Search(text, HPontos, {HCitacao, H3})

resumo_match(text) == Search(text, HResumo, {HPontos, H3})
pontos_match(text) == Search(text, HPontos, {HCitacao, H3})
citacao_match(text) == Search(text, HCitacao, Headings)

Section(match, default) ==
  IF match.found THEN Strip(match.group) ELSE default

\* The sections dict of create_daily_note after the three searches.
extract_sections(gemini_response) ==
  IF gemini_response # <<>>
    THEN [ resumo |-> Section(resumo_match(gemini_response), ResumoDefault),
           pontos_chave |-> Section(pontos_match(gemini_response), PontosDefault),
           citacao |-> Section(citacao_match(gemini_response), CitacaoDefault) ]
    ELSE [ resumo |-> ResumoDefault,
           pontos_chave |-> PontosDefault,
           citacao |-> CitacaoDefault ]

\* str.capitalize() on the names main.py uses.
Capitalize(s) ==
  CASE s = "wikipedia" -> "Wikipedia"
    [] s = "science" -> "Science"
    [] s = "jstor" -> "Jstor"
    [] s = "nautilus" -> "Nautilus"
    [] s = "pesquisa_fapesp" -> "Pesquisa_fapesp"
    [] OTHER -> s

\* The text generate_summary hands to create_daily_note ("" if it raised).
gemini_response_of(link, daily_stoic_link, api) ==
  LET g == generate_summary(link, daily_stoic_link, api)
  IN  IF g.exc # "" THEN <<>> ELSE g.val

\* The note is the template's variable parts; the id and the date are the clock's.
\* Nothing in lines 42-115 raises past the two inner handlers, so the clause
\* of lines 117-120 (vault opened, "" returned) is never entered.
create_daily_note(title, link, category, daily_stoic_link, api) ==
  IF ~(Truthy(title) /\ Truthy(link) /\ Truthy(category))
    THEN Raise("ValueError", <<>>)
    ELSE
      LET sections == extract_sections(gemini_response_of(link, daily_stoic_link, api))
      IN  Ret([ tags |-> category,
                title |-> title,
                fonte |-> Capitalize(category),
                link |-> link,
                resumo |-> sections.resumo,
                pontos_chave |-> sections.pontos_chave,
                citacao |-> sections.citacao ],
              <<>>)

\* main.py: the source of the day, Monday = 0.
fonts == <<"wikipedia", "science", "jstor", "nautilus", "pesquisa_fapesp">>
daily_font_of(day) == IF day < 5 THEN fonts[day + 1] ELSE "wikipedia"

\* "content_data.get('main')" on None raises AttributeError; a result without
\* main or daily_stoic raises ValueError.
main_check(content_data) ==
  IF content_data = None THEN "AttributeError"
  ELSE IF "main" \notin DOMAIN content_data \/ "daily_stoic" \notin DOMAIN content_data
    THEN "ValueError"
  ELSE ""

-----------------------------------------------------------------------------
(* The run *)

VARIABLES
  pc,              \* where the run is
  caller,          \* who called get_content / create_daily_note: "main" or "direct"
  source,          \* the argument of get_content
  attempted,       \* the names get_content looked a get_<name> function up for, in order
  invoked,         \* the get_<name> functions called so far, in order
  gets,            \* the URLs an HTTP GET was issued to so far, in order
  call,            \* the adapter call that returned last: its name, the answers it got, its outcome
  content,         \* get_content's local "content"
  result,          \* what get_content returned
  daily_font,      \* main: the source of the day
  file,            \* main: the note file, None while it does not exist
  opened,          \* main: the URLs handed to webbrowser.open, in order
  note_args,       \* the arguments of create_daily_note
  gemini_response, \* create_daily_note's local "gemini_response"
  note             \* the outcome of create_daily_note

vars == <<pc, caller, source, attempted, invoked, gets, call, content, result, daily_font,
          file, opened, note_args, gemini_response, note>>

get_content_vars == <<source, attempted, invoked, gets, call, content, result>>
main_vars == <<daily_font, file, opened>>
note_vars == <<note_args, gemini_response, note>>

NoFeed == [exc |-> "", val |-> None, gets |-> <<>>]
NoCall == [name |-> "", env |-> None, feed |-> NoFeed, exc |-> "", val |-> None]
NoArgs == [title |-> "", link |-> "", category |-> "", daily_stoic_link |-> ""]
NoNote == [exc |-> "", val |-> None, gets |-> <<>>]

OpenNoteUrl == "obsidian://open?vault=&file=Inbox/"
VaultUrl == "obsidian://vault/"
ErrorNoteUrl == "obsidian://new?vault=&name=ERRO-"

Init ==
  /\ pc = "idle"
  /\ caller = ""
  /\ source = ""
  /\ attempted = <<>>
  /\ invoked = <<>>
  /\ gets = <<>>
  /\ call = NoCall
  /\ content = None
  /\ result = None
  /\ daily_font = ""
  /\ file = None
  /\ opened = <<>>
  /\ note_args = NoArgs
  /\ gemini_response = <<>>
  /\ note = NoNote

\* The indices random.choice can draw from a list of n items.
Picks(n) == 1..(IF n = 0 THEN 1 ELSE n)

(* Entry points *)

\* get_content(src), called on its own.
CallGetContent ==
  /\ pc = "idle"
  /\ \E src \in Sources : source' = src
  /\ caller' = "direct"
  /\ pc' = "get_content"
  /\ UNCHANGED <<attempted, invoked, gets, call, content, result, main_vars, note_vars>>

\* python main.py, on a day of the week: lines 126-140.  The orchestrator
\* main.py asks sources.py for is get_content, the one sources.py has.
MainStart ==
  /\ pc = "idle"
  /\ \E day \in 0..6 :
       /\ daily_font' = daily_font_of(day)
       /\ source' = daily_font_of(day)
  /\ caller' = "main"
  /\ pc' = "get_content"
  /\ UNCHANGED <<attempted, invoked, gets, call, content, result, file, opened, note_vars>>

\* create_daily_note(...), called on its own.
CallCreateDailyNote ==
  /\ pc = "idle"
  /\ \E t \in {"", "T"}, l \in {"", "L"}, c \in {"", "Wikipedia"}, d \in {"", "L"} :
       note_args' = [title |-> t, link |-> l, category |-> c, daily_stoic_link |-> d]
  /\ caller' = "direct"
  /\ pc' = "create_daily_note"
  /\ UNCHANGED <<get_content_vars, main_vars, gemini_response, note>>

(* get_content *)

\* An adapter call of get_content ends: its value is bound to content, or its
\* exception takes get_content to its except clause.
AdapterReturns(name, env, feed, r) ==
  /\ attempted' = Append(attempted, source)
  /\ invoked' = Append(invoked, name)
  /\ gets' = gets \o r.gets
  /\ call' = [name |-> name, env |-> env, feed |-> feed, exc |-> r.exc, val |-> r.val]
  /\ content' = IF r.exc = "" THEN r.val ELSE content
  /\ pc' = IF r.exc = "" THEN "validate" ELSE "except"
  /\ UNCHANGED <<caller, source, result, main_vars, note_vars>>

\* globals()["get_" + source] finds nothing: KeyError.
LookupFails ==
  /\ pc = "get_content"
  /\ source \notin Adapters
  /\ attempted' = Append(attempted, source)
  /\ pc' = "except"
  /\ UNCHANGED <<caller, source, invoked, gets, call, content, result, main_vars,
                 note_vars>>

ListPages(list_resp) ==
  IF list_resp.kind = "ok"
    THEN DictGet(DictGet(list_resp.json, "query", <<>>), "categorymembers", <<>>)
    ELSE <<>>

CallWikipedia ==
  /\ pc = "get_content"
  /\ source = "wikipedia"
  /\ \E list_resp \in ListResponses, sum_resp \in SummaryResponses :
       \E pick \in Picks(Len(ListPages(list_resp))) :
         AdapterReturns("get_wikipedia",
                        [list |-> list_resp, pick |-> pick, summary |-> sum_resp],
                        NoFeed,
                        get_wikipedia(list_resp, pick, sum_resp))

CallJstor ==
  /\ pc = "get_content"
  /\ source = "jstor"
  /\ \E resp \in FeedResponses :
       \E pick \in Picks(Len(resp.entries)) :
         AdapterReturns("get_jstor", [feed |-> resp, pick |-> pick],
                        fetch_feed(JstorFeedUrl, resp),
                        get_jstor(resp, pick))

CallPlato ==
  /\ pc = "get_content"
  /\ source = "plato"
  /\ \E resp \in PlatoResponses :
       AdapterReturns("get_plato", [page |-> resp], NoFeed, get_plato(resp))

\* get_content("daily_stoic"): the quote feed asked for as the main content.
CallDailyStoicAsMain ==
  /\ pc = "get_content"
  /\ source = "daily_stoic"
  /\ \E resp \in FeedResponses :
       \E pick \in Picks(Len(resp.entries)) :
         AdapterReturns("get_daily_stoic", [feed |-> resp, pick |-> pick],
                        fetch_feed(DailyStoicFeedUrl, resp),
                        get_daily_stoic(resp, pick))

\* Lines 67-68: ValueError on a record without a link or a title.
Validate ==
  /\ pc = "validate"
  /\ pc' = IF incomplete(content) THEN "except" ELSE "daily_stoic"
  /\ UNCHANGED <<caller, get_content_vars, main_vars, note_vars>>

\* ReturnContent with the wrong feed adapter called for "daily_stoic".
ReturnContent_calls_jstor ==
  /\ pc = "daily_stoic"
  /\ \E resp \in FeedResponses :
       \E pick \in Picks(Len(resp.entries)) :
         LET r == get_jstor(resp, pick)
         IN  /\ invoked' = Append(invoked, "get_jstor")
             /\ gets' = gets \o r.gets
             /\ call' = [ name |-> "get_jstor",
                          env |-> [feed |-> resp, pick |-> pick],
                          feed |-> fetch_feed(JstorFeedUrl, resp),
                          exc |-> r.exc, val |-> r.val ]
             /\ result' = IF r.exc = "" THEN content_dict(content, r.val) ELSE result
             /\ pc' = IF r.exc = "" THEN "returned" ELSE "except"
  /\ UNCHANGED <<caller, source, attempted, content, main_vars, note_vars>>

\* Lines 71-77: the dict is built, with the call of get_daily_stoic in it.
ReturnContent ==
  /\ pc = "daily_stoic"
  /\ \E resp \in FeedResponses :
       \E pick \in Picks(Len(resp.entries)) :
         LET r == get_daily_stoic(resp, pick)
         IN  /\ invoked' = Append(invoked, "get_daily_stoic")
             /\ gets' = gets \o r.gets
             /\ call' = [ name |-> "get_daily_stoic",
                          env |-> [feed |-> resp, pick |-> pick],
                          feed |-> fetch_feed(DailyStoicFeedUrl, resp),
                          exc |-> r.exc, val |-> r.val ]
             /\ result' = IF r.exc = "" THEN content_dict(content, r.val) ELSE result
             /\ pc' = IF r.exc = "" THEN "returned" ELSE "except"
  /\ UNCHANGED <<caller, source, attempted, content, main_vars, note_vars>>

\* Lines 79-80: the exception is logged and get_content falls off its end.
Except ==
  /\ pc = "except"
  /\ result' = None
  /\ pc' = "returned"
  /\ UNCHANGED <<caller, source, attempted, invoked, gets, call, content, main_vars,
                 note_vars>>

(* main.py *)

\* Lines 142-153, and open() of line 163, which creates the file or raises.
MainCheck ==
  /\ pc = "returned"
  /\ caller = "main"
  /\ call' = NoCall
  /\ IF main_check(result) # ""
       THEN /\ pc' = "main_except"
            /\ UNCHANGED <<file, note_args>>
       ELSE \E open_ok \in BOOLEAN :
              IF open_ok
                THEN /\ file' = <<>>
                     /\ note_args' = [ title |-> result.main.title,
                                       link |-> result.main.link,
                                       category |-> Capitalize(daily_font),
                                       daily_stoic_link |-> result.daily_stoic.link ]
                     /\ pc' = "create_daily_note"
                ELSE /\ pc' = "main_except"
                     /\ UNCHANGED <<file, note_args>>
  /\ UNCHANGED <<caller, source, attempted, invoked, gets, content, result,
                 daily_font, opened, gemini_response, note>>

\* create_daily_note, lines 33-115.
CreateDailyNote ==
  /\ pc = "create_daily_note"
  /\ \E api \in ApiOutcomes :
       LET a == note_args
           r == create_daily_note(a.title, a.link, a.category, a.daily_stoic_link, api)
       IN  /\ note' = r
           /\ gemini_response' =
                IF r.exc = ""
                  THEN gemini_response_of(a.link, a.daily_stoic_link, api)
                  ELSE gemini_response
  /\ pc' = "note_returned"
  /\ UNCHANGED <<caller, get_content_vars, main_vars, note_args>>

\* f.write of lines 164-171.
MainWrite ==
  /\ pc = "note_returned"
  /\ caller = "main"
  /\ IF note.exc = ""
       THEN /\ file' = note.val
            /\ pc' = "written"
       ELSE /\ pc' = "main_except"
            /\ UNCHANGED file
  /\ gemini_response' = <<>>
  /\ note' = NoNote
  /\ UNCHANGED <<caller, get_content_vars, daily_font, opened, note_args>>

\* Lines 174-184: the note is opened, or the vault if the file is gone;
\* quote(obsidian_vault_name) raises TypeError when the name is not configured.
MainOpen ==
  /\ pc = "written"
  /\ \E vault_name_set \in BOOLEAN, exists \in BOOLEAN :
       IF vault_name_set
         THEN /\ opened' = Append(opened, IF exists THEN OpenNoteUrl ELSE VaultUrl)
              /\ pc' = "done"
         ELSE /\ pc' = "main_except"
              /\ UNCHANGED opened
  /\ UNCHANGED <<caller, get_content_vars, daily_font, file, note_vars>>

\* MainExcept opening the vault, as line 182 does, in place of the error note.
MainExcept_opens_vault ==
  /\ pc = "main_except"
  /\ opened' = Append(opened, VaultUrl)
  /\ pc' = "done"
  /\ UNCHANGED <<caller, get_content_vars, daily_font, file, note_vars>>

\* Lines 186-191.
MainExcept ==
  /\ pc = "main_except"
  /\ opened' = Append(opened, ErrorNoteUrl)
  /\ pc' = "done"
  /\ UNCHANGED <<caller, get_content_vars, daily_font, file, note_vars>>

Next ==
  \/ CallGetContent
  \/ MainStart
  \/ CallCreateDailyNote
  \/ LookupFails
  \/ CallWikipedia
  \/ CallJstor
  \/ CallPlato
  \/ CallDailyStoicAsMain
  \/ Validate
  \/ ReturnContent
  \/ Except
  \/ MainCheck
  \/ CreateDailyNote
  \/ MainWrite
  \/ MainOpen
  \/ MainExcept

Spec == Init /\ [][Next]_vars

-----------------------------------------------------------------------------
(* Properties *)

\* A record with a non-empty title and a non-empty link.
Usable(rec) ==
  /\ "title" \in DOMAIN rec
  /\ "link" \in DOMAIN rec
  /\ rec.title \notin {"", NoneStr}
  /\ rec.link \notin {"", NoneStr}

AdapterName(src) == "get_" \o src

\* get_content has returned (and, in a main run, main.py has gone on).
AfterGetContent ==
  /\ source # ""
  /\ pc \in {"returned", "main_except", "create_daily_note", "note_returned",
             "written", "done"}

\* The fallbacks the specification's example configures for "jstor".
ExampleFallbacks == <<"science", "wikipedia">>

\* C1: for every provider name and every adapter outcome, get_content returns
\* a result whose main.title and main.link are non-empty strings, never None.
C1_ResultAlwaysPopulated ==
  pc = "returned" =>
    /\ result # None
    /\ Truthy(result.main.title)
    /\ Truthy(result.main.link)

\* C2: when the primary provider ("jstor" in the example) fails, the
\* candidates are attempted in the order primary, first fallback, second
\* fallback, and main is the record of the first candidate that was usable.
C2_FallbacksAttemptedInOrder ==
  (pc = "returned" /\ source = "jstor" /\ ~Usable(content)) =>
    /\ Len(attempted) \in {2, 3}
    /\ attempted[1] = "jstor"
    /\ attempted[2] = ExampleFallbacks[1]
    /\ Len(attempted) = 3 => attempted[3] = ExampleFallbacks[2]

\* C3: once the primary adapter has returned a record with a title and a
\* link, no other main-content adapter is looked up or invoked in that call;
\* the only further adapter invoked is get_daily_stoic.
C3_ShortCircuit ==
  Usable(content) =>
    /\ attempted = <<source>>
    /\ Len(invoked) \in {1, 2}
    /\ invoked[1] = AdapterName(source)
    /\ Len(invoked) = 2 => invoked[2] = "get_daily_stoic"
    /\ AfterGetContent => Len(invoked) = 2

C3_Witness ==
  /\ pc = "returned"
  /\ source = "jstor"
  /\ Usable(content)
  /\ invoked = <<"get_jstor", "get_daily_stoic">>

\* C4: when no candidate yields a usable record, three candidates (the primary
\* and two fallbacks) have been attempted and the result's main is the
\* placeholder record that lists the attempted names, not None.
C4_PlaceholderWhenAllFail ==
  (pc = "returned" /\ ~Usable(content)) =>
    /\ Len(attempted) = 3
    /\ result # None
    /\ result.main.title = generate_fallback_note(attempted).title
    /\ "content" \in DOMAIN result.main
    /\ result.main.content = attempted

\* C5: get_daily_stoic is invoked on every call of get_content, whether the
\* main content was obtained or not, and the result carries daily_stoic.
C5_DailyStoicAlwaysInvoked ==
  pc = "returned" =>
    /\ invoked # <<>>
    /\ invoked[Len(invoked)] = "get_daily_stoic"
    /\ call.name = "get_daily_stoic"
    /\ call.exc = ""
    /\ result # None
    /\ result.daily_stoic = call.val

\* The source name an adapter tags its placeholder with.
Tag(name) ==
  CASE name = "get_wikipedia" -> "Wikipedia"
    [] name = "get_jstor" -> "JSTOR"
    [] name = "get_plato" -> "Stanford Philosophy"
    [] name = "get_daily_stoic" -> "Daily Stoic"

\* The failures of each adapter, read off the answers it was given.
FeedFailed(env) == env.feed.kind # "ok" \/ env.feed.entries = <<>>

PlatoFailed(env) == env.page.kind # "ok" \/ env.page.h1 = NoneStr

\* The listing request failed, the category is empty, or a field is missing
\* on the way to the chosen member's title.
WikiListFailed(env) ==
  \/ env.list.kind # "ok"
  \/ "query" \notin DOMAIN env.list.json
  \/ "categorymembers" \notin DOMAIN env.list.json.query
  \/ env.list.json.query.categorymembers = <<>>
  \/ "title" \notin DOMAIN env.list.json.query.categorymembers[env.pick]

SummaryLinkMissing(data) ==
  \/ "content_urls" \notin DOMAIN data
  \/ "desktop" \notin DOMAIN data.content_urls
  \/ "page" \notin DOMAIN data.content_urls.desktop

SummaryTitleMissing(data) == "title" \notin DOMAIN data

WikiFailed(env) ==
  \/ WikiListFailed(env)
  \/ env.summary.kind # "ok"
  \/ SummaryLinkMissing(env.summary.json)

\* With every missing JSON field counted as a failure.
WikiFailedAnyField(env) ==
  \/ WikiFailed(env)
  \/ SummaryTitleMissing(env.summary.json)

AdapterFailed(c) ==
  CASE c.name = "get_wikipedia" -> WikiFailed(c.env)
    [] c.name = "get_plato" -> PlatoFailed(c.env)
    [] OTHER -> FeedFailed(c.env)

AdapterFailedAnyField(c) ==
  CASE c.name = "get_wikipedia" -> WikiFailedAnyField(c.env)
    [] c.name = "get_plato" -> PlatoFailed(c.env)
    [] OTHER -> FeedFailed(c.env)

\* C6 as stated: no adapter raises, and every failure at any step, a missing
\* JSON field included, ends with the placeholder tagged with the source.
C6_EveryFailureGivesPlaceholder ==
  call.name # "" =>
    /\ call.exc = ""
    /\ AdapterFailedAnyField(call) =>
         call.val = generate_fallback_note(<<Tag(call.name)>>)

\* C6 amended: no adapter raises; every failure at any step ends with the
\* placeholder tagged with the source, where a missing JSON field is a failure
\* unless it is the page summary's title: that one is defaulted, and
\* get_wikipedia returns the summary's link under "Artigo Desconhecido".
C6_FailuresGivePlaceholder ==
  call.name # "" =>
    /\ call.exc = ""
    /\ AdapterFailed(call) =>
         call.val = generate_fallback_note(<<Tag(call.name)>>)
    /\ ( /\ call.name = "get_wikipedia"
         /\ ~WikiFailed(call.env)
         /\ SummaryTitleMissing(call.env.summary.json) ) =>
         call.val = [ title |-> "Artigo Desconhecido",
                      link |-> call.env.summary.json.content_urls.desktop.page ]

C6_Witness ==
  /\ call.name = "get_wikipedia"
  /\ ~WikiListFailed(call.env)
  /\ call.env.summary.kind = "ok"
  /\ SummaryLinkMissing(call.env.summary.json)
  /\ call.exc = ""
  /\ call.val = generate_fallback_note(<<"Wikipedia">>)

FeedUrl(name) == IF name = "get_jstor" THEN JstorFeedUrl ELSE DailyStoicFeedUrl

ResultMissing ==
  \/ result = None
  \/ "main" \notin DOMAIN result
  \/ "daily_stoic" \notin DOMAIN result

HasToken(text, tok) == \E i \in 1..Len(text) : text[i] = tok

AllPresent(a) == a.title # "" /\ a.link # "" /\ a.category # ""

NoteReturned == pc = "note_returned" /\ AllPresent(note_args)

\* C9 as stated: with all required fields present, no section of the note is
\* left as its default placeholder, whatever the summary call produced.
C9_NoSectionLeftDefault ==
  NoteReturned =>
    /\ note.exc = ""
    /\ note.val.resumo # ResumoDefault
    /\ note.val.pontos_chave # PontosDefault
    /\ note.val.citacao # CitacaoDefault

\* C9 amended: with all required fields present a note is produced, and each
\* section is left as its default placeholder whenever the summary text lacks
\* that section's heading (always so for an empty text), and otherwise only
\* when the summary text itself carries the placeholder string.
C9_DefaultOnlyWithoutHeading ==
  NoteReturned =>
    /\ note.exc = ""
    /\ ~HasToken(gemini_response, HResumo) => note.val.resumo = ResumoDefault
    /\ ~HasToken(gemini_response, HPontos) => note.val.pontos_chave = PontosDefault
    /\ ~HasToken(gemini_response, HCitacao) => note.val.citacao = CitacaoDefault
    /\ note.val.resumo = ResumoDefault =>
         \/ ~HasToken(gemini_response, HResumo)
         \/ HasToken(gemini_response, ResumoDefault[1])
    /\ note.val.pontos_chave = PontosDefault =>
         \/ ~HasToken(gemini_response, HPontos)
         \/ HasToken(gemini_response, PontosDefault[1])
    /\ note.val.citacao = CitacaoDefault =>
         \/ ~HasToken(gemini_response, HCitacao)
         \/ HasToken(gemini_response, CitacaoDefault[1])

C9_Witness ==
  /\ NoteReturned
  /\ note.exc = ""
  /\ HasToken(gemini_response, HResumo)
  /\ HasToken(gemini_response, HPontos)
  /\ HasToken(gemini_response, HCitacao)
  /\ note.val.resumo = <<"txt">>
  /\ note.val.pontos_chave = <<"txt">>
  /\ note.val.citacao = <<"txt">>

====
